---- MODULE Spec2Model ----
(***************************************************************************)
(* Model of bot.py: the OLX offer monitor.  One process holds two lists in *)
(* memory (seen_offers, subscribers), mirrors them in two JSON files, runs *)
(* one polling task (polling_loop / check_once) and serves the commands    *)
(* /start, /stop, /status and /addquery on the same asyncio event loop.    *)
(* A coroutine runs without interruption between two awaits, so every      *)
(* action below is the code between two suspension points.                 *)
(***************************************************************************)
EXTENDS Integers, Sequences, FiniteSets, TLC

\* ------------------------------------------------------------------ bounds
MaxCycles  == 2    \* poll cycles started, over all runs of the process
MaxEvents  == 2    \* commands handled, process stops and failed writes, over all runs
MaxQueries == 2    \* length SEARCH_QUERIES may grow to through /addquery
MaxText    == 4    \* length of the price texts normalize_price is called on

\* ------------------------------------------------------------ small inputs
Chats == {1, 2}
None == -1         \* Python's None as a price (normalize_price is never negative)

\* ------------------------------------------------------------------ config
\* PRICE_THRESHOLDS, in the dict's insertion order.
PRICE_THRESHOLDS ==
  << <<"iphone 11", 350>>, <<"iphone 11 pro", 400>>, <<"iphone 12", 400>>,
     <<"iphone 12 pro", 750>>, <<"iphone 12 pro max", 750>>, <<"iphone 13", 700>>,
     <<"iphone 13 pro", 1200>>, <<"iphone 13 pro max", 1300>>, <<"iphone 14", 1100>>,
     <<"iphone 14 pro", 1500>>, <<"iphone 14 plus", 1300>>, <<"iphone 14 pro max", 1600>>,
     <<"iphone 15", 1550>>, <<"iphone 15 pro", 2400>>, <<"iphone 15 pro max", 2700>>,
     <<"iphone 16", 2900>> >>

\* MUST_CONTAIN as configured: no required word.
MUST_CONTAIN == <<>>

\* SEARCH_QUERIES as configured: one search URL.
ConfiguredQueries == <<"q1">>
\* What /addquery may be given.
QueryArgs == {"q2"}

\* ------------------------------------------------------------ list helpers
\* Python's `x in list`.
InSeq(x, s) == \E i \in 1..Len(s) : s[i] = x

Range(s) == {s[i] : i \in 1..Len(s)}

NoDup(s) == \A i, j \in 1..Len(s) : i # j => s[i] # s[j]

\* Python's list.remove(x): drops the first occurrence.
RemoveFirst(x, s) ==
  LET i == CHOOSE k \in 1..Len(s) : s[k] = x /\ \A m \in 1..(k-1) : s[m] # x
  IN  SubSeq(s, 1, i-1) \o SubSeq(s, i+1, Len(s))

\* ---------------------------------------------------------- string helpers
UpperLetters == "ABCDEFGHIJKLMNOPQRSTUVWXYZ"
LowerLetters == "abcdefghijklmnopqrstuvwxyz"

LowerChar(c) ==
  IF \E i \in 1..Len(UpperLetters) : SubSeq(UpperLetters, i, i) = c
  THEN LET i == CHOOSE k \in 1..Len(UpperLetters) : SubSeq(UpperLetters, k, k) = c
       IN  SubSeq(LowerLetters, i, i)
  ELSE c

RECURSIVE Lower(_)
\* str.lower() on the ASCII titles and excerpts of the model.
Lower(s) ==
  IF Len(s) = 0 THEN ""
  ELSE LowerChar(SubSeq(s, 1, 1)) \o Lower(SubSeq(s, 2, Len(s)))

\* Python's `key in text` on strings: substring test.
Contains(text, key) ==
  \E i \in 1..(Len(text) - Len(key) + 1) : SubSeq(text, i, i + Len(key) - 1) = key

\* -------------------------------------------------------- Price Normalizer
Digits == "0123456789"

\* The value of a digit character.
DigitValue(c) == (CHOOSE k \in 1..Len(Digits) : SubSeq(Digits, k, k) = c) - 1

RECURSIVE Keep(_, _)
\* re.sub of a negated character class by "": the characters of s that are in kept.
Keep(s, kept) ==
  IF Len(s) = 0 THEN ""
  ELSE (IF Contains(kept, SubSeq(s, 1, 1)) THEN SubSeq(s, 1, 1) ELSE "")
         \o Keep(SubSeq(s, 2, Len(s)), kept)

RECURSIVE Replace(_, _, _)
\* str.replace(old, new) for a one-character old.
Replace(s, old, new) ==
  IF Len(s) = 0 THEN ""
  ELSE (IF SubSeq(s, 1, 1) = old THEN new ELSE SubSeq(s, 1, 1))
         \o Replace(SubSeq(s, 2, Len(s)), old, new)

RECURSIVE Split(_, _)
\* str.split(sep) for a one-character sep: the list of segments.
Split(s, sep) ==
  IF ~Contains(s, sep) THEN <<s>>
  ELSE LET i == CHOOSE k \in 1..Len(s) :
                  SubSeq(s, k, k) = sep /\ \A m \in 1..(k-1) : SubSeq(s, m, m) # sep
       IN  <<SubSeq(s, 1, i-1)>> \o Split(SubSeq(s, i+1, Len(s)), sep)

RECURSIVE Join(_)
\* ''.join(parts).
Join(parts) == IF parts = <<>> THEN "" ELSE Head(parts) \o Join(Tail(parts))

RECURSIVE IntOf(_)
\* int() of a string of digits; the empty string of digits counts 0 here
\* (the whole part of ".5").
IntOf(d) ==
  IF Len(d) = 0 THEN 0
  ELSE IntOf(SubSeq(d, 1, Len(d) - 1)) * 10 + DigitValue(SubSeq(d, Len(d), Len(d)))

\* Whether float(s) returns, for s of digits and periods: it raises ValueError
\* unless s has at most one period and at least one digit.
FloatParses(s) == Len(Split(s, ".")) <= 2 /\ Keep(s, Digits) # ""

\* float(s) where it returns: the whole part and the digits of the fraction.
\* A double holds every decimal of up to 15 significant digits closely enough
\* for int() to give its whole part, and the texts of the model are shorter.
float(s) ==
  LET parts == Split(s, ".")
  IN  [whole |-> IntOf(parts[1]), frac |-> IF Len(parts) = 2 THEN parts[2] ELSE ""]

\* (mutant) round(value) in the place of int(value).
TruncRounds(value) ==
  value.whole + (IF Len(value.frac) > 0 /\ DigitValue(SubSeq(value.frac, 1, 1)) >= 5
                 THEN 1 ELSE 0)

\* int(value) of a non-negative float: the fraction is dropped.
Trunc(value) == value.whole

\* A price text as the parser passes it, or None.
PriceText(s) == [some |-> TRUE, text |-> s]
NoPriceText == [some |-> FALSE, text |-> ""]

\* Python's `not text`: None or the empty string.
NotText(text) == ~text.some \/ text.text = ""

normalize_price(text) ==
  IF NotText(text) THEN None
  ELSE LET cleaned == Keep(text.text, "0123456789,.")
       IN  IF cleaned = "" THEN None
           ELSE LET dotted == Replace(cleaned, ",", ".")
                    parts == Split(dotted, ".")
                    joined == IF Len(parts) > 2
                              THEN Join(SubSeq(parts, 1, Len(parts) - 1))
                                     \o "." \o parts[Len(parts)]
                              ELSE dotted
                IN  IF FloatParses(joined) THEN Trunc(float(joined))
                    ELSE LET digits == Keep(text.text, Digits)
                         IN  IF digits # "" THEN IntOf(digits) ELSE None

\* The characters the price texts of the model are written in.
Alphabet == {"1", "0", "9", " ", ",", ".", "z"}

RECURSIVE TextsOfLen(_)
TextsOfLen(n) ==
  IF n = 0 THEN {""} ELSE {t \o c : t \in TextsOfLen(n - 1), c \in Alphabet}

\* The texts of run_self_tests (the Polish l-stroke written as l).
SelfTestTexts == {"1 200 zl", "PLN 2,345.67", "~ 999", ""}

PriceTexts ==
  {PriceText(s) : s \in UNION {TextsOfLen(n) : n \in 0..MaxText} \cup SelfTestTexts}
    \cup {NoPriceText}

\* ------------------------------------------------------------ Match Filter
RECURSIVE LastKeyFrom(_, _)
\* (mutant) the last matching entry, not the first.
LastKeyFrom(title_l, k) ==
  IF k > Len(PRICE_THRESHOLDS) THEN 0
  ELSE LET later == LastKeyFrom(title_l, k + 1)
       IN  IF later # 0 THEN later
           ELSE IF Contains(title_l, PRICE_THRESHOLDS[k][1]) THEN k ELSE 0

RECURSIVE FirstKeyFrom(_, _)
\* Index of the first PRICE_THRESHOLDS entry, from k on, whose key is in title_l; 0 if none.
FirstKeyFrom(title_l, k) ==
  IF k > Len(PRICE_THRESHOLDS) THEN 0
  ELSE IF Contains(title_l, PRICE_THRESHOLDS[k][1]) THEN k
  ELSE FirstKeyFrom(title_l, k + 1)

matches_price_threshold(title, price_pln) ==
  IF price_pln = None THEN FALSE
  ELSE LET title_l == Lower(title)
           k == FirstKeyFrom(title_l, 1)
       IN  IF k = 0 THEN FALSE ELSE price_pln <= PRICE_THRESHOLDS[k][2]

contains_required_words(must, text) ==
  IF Len(must) = 0 THEN TRUE
  ELSE LET lower == Lower(text)
       IN  \A i \in 1..Len(must) : Contains(lower, Lower(must[i]))

\* ------------------------------------------------------------- persistence
\* A file on disk: absent, a JSON array, a JSON object (valid JSON that is
\* not an array; data holds its keys), or bytes that cannot be read or that
\* json.loads rejects.
AbsentFile == [kind |-> "absent", data |-> <<>>]
CorruptFile == [kind |-> "corrupt", data |-> <<>>]
ArrayFile(data) == [kind |-> "array", data |-> data]
ObjectFile(keys) == [kind |-> "object", data |-> keys]

\* What load_json returns: json.loads of the file, or default.
load_json(file, default) ==
  IF file.kind # "absent"
  THEN IF file.kind # "corrupt" THEN file.data ELSE default
  ELSE default

\* The Python type of what load_json returns, default being a list.
load_json_type(file) ==
  IF file.kind # "absent"
  THEN IF file.kind # "corrupt"
       THEN (IF file.kind = "array" THEN "list" ELSE "dict")
       ELSE "list"
  ELSE "list"

\* Whether value.append(x) raises AttributeError: only a list has append.
AppendRaises(type) == type # "list"

\* How one path.write_text call can end.
\*   ok        the file holds the new text
\*   error     open() raised: the file is as before, the exception propagates
\*   truncated the write raised after open() emptied the file
WriteOutcomes == {"ok", "error", "truncated"}

\* (mutant) save_json without the write.
save_jsonKeepsFile(file, data, w) == file

\* The file after save_json(path, data) ended with outcome w.
save_json(file, data, w) ==
  IF w = "ok" THEN ArrayFile(data)
  ELSE IF w = "error" THEN file
  ELSE CorruptFile

\* ------------------------------------------------------------------ offers
\* One candidate element of a results page, by the fields the parser reads from it.
Candidate(id, title, price, excerpt) ==
  [id |-> id, title |-> title, price |-> price, excerpt |-> excerpt]

\* The candidates the pages of the model are made of.
OfferA == Candidate("o1", "iPhone 11 super", 350, "bez blokad")  \* within its threshold
OfferB == Candidate("o2", "Apple IPHONE 12", 400, "")            \* within, no excerpt
OfferDear == Candidate("o1", "iPhone 11 super", 351, "bez blokad") \* above its threshold
OfferUnpriced == Candidate("o2", "iPhone 13", None, "simlock")   \* no parseable price
OfferNoId == Candidate("", "iPhone 11", 100, "")                 \* no id can be derived

PageOffers == {OfferA, OfferB, OfferDear, OfferUnpriced, OfferNoId}

\* The results pages of the model: empty, one or two listings, the same
\* listing twice on one page, and listings the filter or the parser drops.
Pages ==
  { <<>>, <<OfferA>>, <<OfferA, OfferB>>, <<OfferA, OfferA>>,
    <<OfferDear>>, <<OfferUnpriced, OfferNoId>> }

OIds == {c.id : c \in PageOffers} \ {""}

\* What session.get can produce: a status with a body, or (status 0) a transport
\* error or timeout, which has neither.
Responses ==
  {[status |-> 200, body |-> p] : p \in Pages}
    \cup {[status |-> 500, body |-> <<OfferA>>], [status |-> 0, body |-> <<>>]}

\* parse_offers_from_html on the candidates of a page: a candidate without id is dropped.
parse_offers_from_html(html) == SelectSeq(html, LAMBDA c : c.id # "")

\* (mutant) fetch without the status test.
fetchAnyStatus(resp) ==
  IF resp.status # 0 THEN [some |-> TRUE, text |-> resp.body]
  ELSE [some |-> FALSE, text |-> <<>>]

\* fetch: the body on status 200, else None.
fetch(resp) ==
  IF resp.status = 200 THEN [some |-> TRUE, text |-> resp.body]
  ELSE [some |-> FALSE, text |-> <<>>]

\* Python's `not html`: None or the empty text.
NotHtml(html) == ~html.some \/ html.text = <<>>

\* The notification text of an offer (the f-string of check_once), its emoji
\* written in ASCII; the price_text, location and url lines are left out with
\* the fields they print.
FormatText(off) ==
  "* " \o off.title \o " *\n"
    \o (IF off.price # None /\ off.price # 0 THEN "PLN " \o ToString(off.price) \o " zl\n" ELSE "")
    \o (IF off.excerpt # "" THEN "\n" \o off.excerpt \o "\n" ELSE "")
    \o "\nID: " \o off.id

\* The two filters on the candidates of the model, tabulated once.
PriceOk == [c \in PageOffers |-> matches_price_threshold(c.title, c.price)]
WordsOk ==
  [c \in PageOffers |->
     contains_required_words(MUST_CONTAIN, IF c.excerpt # "" THEN c.excerpt ELSE c.title)]

\* (mutant) the filter without the `oid in seen_offers` test.
IsNewMatchUnseenOrNot(off, seen) == PriceOk[off] /\ WordsOk[off]

\* (mutant) the filter without the price test.
IsNewMatchAnyPrice(off, seen) == ~InSeq(off.id, seen) /\ WordsOk[off]

\* The three checks of check_once on one offer.
IsNewMatch(off, seen) ==
  /\ ~InSeq(off.id, seen)
  /\ PriceOk[off]
  /\ WordsOk[off]

RECURSIVE Entries(_)
Entries(offers) ==
  IF offers = <<>> THEN <<>>
  ELSE <<[oid |-> Head(offers).id, text |-> FormatText(Head(offers))]>> \o Entries(Tail(offers))

\* What one query adds to new_found, given what fetch returned.
NewFrom(html, seen) ==
  IF NotHtml(html) THEN <<>>
  ELSE Entries(SelectSeq(parse_offers_from_html(html.text),
                         LAMBDA off : IsNewMatch(off, seen)))

RECURSIVE Oids(_)
Oids(nf) == IF nf = <<>> THEN <<>> ELSE <<Head(nf).oid>> \o Oids(Tail(nf))

\* Whether the for loop over SEARCH_QUERIES has another query after index i.
HasNextQuery(i, queries) == i < Len(queries)

\* ------------------------------------------------------------------- state
VARIABLES
  seenFile,        \* data/seen_offers.json
  subsFile,        \* data/subscribers.json
  up,              \* the process is running
  seen_offers,     \* module global, a list
  subscribers,     \* module global, a list
  SEARCH_QUERIES,  \* module global, a list
  pc,              \* where the polling task is: none, wait_ready, fetching, sending, sleeping, dead
  qi,              \* index of the query whose fetch is awaited
  new_found,       \* check_once's local list of (oid, text)
  ni,              \* index in new_found of the match being sent
  cj,              \* index in targets of the send awaited
  targets,         \* list(subscribers) as copied for the match being sent
  cycleNo,         \* poll cycles started so far, over all runs
  cmds,            \* commands handled so far
  faults,          \* process stops and failed writes so far
  runs,            \* launches so far
  \* What follows records what happened; the program does not read it.
  fetchLog,        \* this cycle: the response each query got
  tailQueries,     \* this cycle: SEARCH_QUERIES when the for loop over it ended
  attempts,        \* this cycle: the send_message calls made, in order
  snaps,           \* this cycle: list(subscribers) as copied for each match
  cyc0,            \* seen_offers and the seen file when this cycle began
  seenWrites,      \* this cycle: writes of the seen file
  outcome,         \* this cycle: none, running, done, save_raised, send_raised
  recordedIn,      \* per offer id, the cycle whose save first wrote it to disk (0: none)
  lossy,           \* a write of the seen file has failed
  unsent,          \* <<oid, chat>>: chat was a subscriber when oid was found, has not
                   \* unsubscribed since, and no send of oid to chat was attempted since
  prevFailed,      \* queries whose fetch failed in the previous cycle of this run
  lastCmd,         \* the last command handled
  probe            \* a helper function called on its own: its arguments and its result

disk == <<seenFile, subsFile>>
mem == <<seen_offers, subscribers, SEARCH_QUERIES>>
task == <<pc, qi, new_found, ni, cj, targets>>
budget == <<cycleNo, cmds, faults, runs>>
cycleHist == <<fetchLog, tailQueries, attempts, snaps, cyc0, seenWrites, outcome, prevFailed>>
longHist == <<recordedIn, lossy, unsent>>

vars == <<seenFile, subsFile, up, seen_offers, subscribers, SEARCH_QUERIES,
          pc, qi, new_found, ni, cj, targets, cycleNo, cmds, faults, runs,
          fetchLog, tailQueries, attempts, snaps, cyc0, seenWrites, outcome,
          recordedIn, lossy, unsent, prevFailed, lastCmd, probe>>

NoCmd == [kind |-> "none", chat |-> 0, member |-> FALSE]
NoCyc0 == [seen |-> <<>>, file |-> AbsentFile]
NoProbe == [fn |-> "none"]

\* The first launch finds an empty data directory.
Init ==
  /\ seenFile = AbsentFile
  /\ subsFile = AbsentFile
  /\ up = FALSE
  /\ seen_offers = <<>>
  /\ subscribers = <<>>
  /\ SEARCH_QUERIES = <<>>
  /\ pc = "none"
  /\ qi = 0
  /\ new_found = <<>>
  /\ ni = 0
  /\ cj = 0
  /\ targets = <<>>
  /\ cycleNo = 0
  /\ cmds = 0
  /\ faults = 0
  /\ runs = 0
  /\ fetchLog = <<>>
  /\ tailQueries = <<>>
  /\ attempts = <<>>
  /\ snaps = <<>>
  /\ cyc0 = NoCyc0
  /\ seenWrites = 0
  /\ outcome = "none"
  /\ recordedIn = [o \in OIds |-> 0]
  /\ lossy = FALSE
  /\ unsent = {}
  /\ prevFailed = {}
  /\ lastCmd = NoCmd
  /\ probe = NoProbe

\* The write outcomes the fault budget still allows.
Writes == IF cmds + faults < MaxEvents THEN WriteOutcomes ELSE {"ok"}

Fault(w) == IF w = "ok" THEN 0 ELSE 1

\* The memory of a process that is not running, and the record of its cycle.
ProcessGone ==
  /\ up' = FALSE
  /\ seen_offers' = <<>>
  /\ subscribers' = <<>>
  /\ SEARCH_QUERIES' = <<>>
  /\ pc' = "none"
  /\ qi' = 0
  /\ new_found' = <<>>
  /\ ni' = 0
  /\ cj' = 0
  /\ targets' = <<>>
  /\ fetchLog' = <<>>
  /\ tailQueries' = <<>>
  /\ attempts' = <<>>
  /\ snaps' = <<>>
  /\ cyc0' = NoCyc0
  /\ seenWrites' = 0
  /\ outcome' = "none"
  /\ prevFailed' = {}
  /\ lastCmd' = NoCmd

\* Launch in normal run mode: the module loads both lists, main() writes both
\* back, creates the polling task and starts the dispatcher.  A write that
\* raises ends main() with the exception.  The process is launched first on
\* an empty data directory and again only after it has stopped, so the fault
\* budget bounds the launches too.
Start ==
  /\ ~up
  /\ runs' = runs + 1
  /\ \E w1 \in Writes :
       LET seen == load_json(seenFile, <<>>)
           subs == load_json(subsFile, <<>>)
       IN  /\ seenFile' = save_json(seenFile, seen, w1)
           /\ lossy' = (lossy \/ w1 # "ok")
           /\ IF w1 # "ok"
              THEN /\ faults' = faults + 1
                   /\ subsFile' = subsFile
                   /\ UNCHANGED <<up, mem, task, cycleHist, lastCmd>>
              ELSE \E w2 \in Writes :
                     /\ subsFile' = save_json(subsFile, subs, w2)
                     /\ faults' = faults + Fault(w2)
                     /\ IF w2 # "ok"
                        THEN UNCHANGED <<up, mem, task, cycleHist, lastCmd>>
                        ELSE /\ up' = TRUE
                             /\ seen_offers' = seen
                             /\ subscribers' = subs
                             /\ SEARCH_QUERIES' = ConfiguredQueries
                             /\ pc' = "wait_ready"
                             /\ UNCHANGED <<qi, new_found, ni, cj, targets, cycleHist, lastCmd>>
  /\ UNCHANGED <<cycleNo, cmds, recordedIn, unsent>>
  /\ UNCHANGED probe

\* The process is stopped (killed, power loss) at any point.
Crash ==
  /\ up
  /\ cmds + faults < MaxEvents
  /\ faults' = faults + 1
  /\ ProcessGone
  /\ UNCHANGED <<disk, cycleNo, cmds, runs, longHist>>
  /\ UNCHANGED probe

\* --------------------------------------------------------------- poll cycle
\* (mutant) the batch persist placed outside `if new_found:`.
MustPersistAlways(nf) == TRUE

\* `if new_found:` of check_once.
MustPersist(nf) == nf # <<>>

\* (mutant) the save placed before the append loop has run.
MarkSeenNothing(seen, nf) == seen

\* (mutant) the list replaced by the new ids, not extended by them.
MarkSeenOnlyNew(seen, nf) == Oids(nf)

\* The loop `for oid, _ in new_found: seen_offers.append(oid)`.
MarkSeen(seen, nf) == seen \o Oids(nf)

\* (mutant) send_message called outside the try.
SendRaisesUncaught(ok) == ~ok

\* Whether the exception of a failed send_message leaves the try of the send loop.
SendRaises(ok) == FALSE

\* polling_loop up to its loop: `await bot.wait_until_ready()` is outside the
\* try.  When the call raises (the Bot object defines no such method) the
\* task ends before its first cycle; the dispatcher keeps serving commands.
WaitUntilReady ==
  /\ up
  /\ pc = "wait_ready"
  /\ \E ready \in BOOLEAN : pc' = IF ready THEN "ready" ELSE "dead"
  /\ UNCHANGED <<disk, up, mem, qi, new_found, ni, cj, targets,
                 budget, cycleHist, longHist, lastCmd>>
  /\ UNCHANGED probe

FailedSources(log) == {log[i].src : i \in {k \in 1..Len(log) : log[k].resp.status # 200}}

\* check_once is called (first, or after asyncio.sleep(POLL_INTERVAL)) and
\* runs to its first await, the fetch of the first query.
BeginCycle ==
  /\ up
  /\ pc \in {"ready", "sleeping"}
  /\ cycleNo < MaxCycles
  /\ cycleNo' = cycleNo + 1
  /\ pc' = "fetching"
  /\ qi' = 1
  /\ new_found' = <<>>
  /\ ni' = 0
  /\ cj' = 0
  /\ targets' = <<>>
  /\ fetchLog' = <<>>
  /\ tailQueries' = <<>>
  /\ attempts' = <<>>
  /\ snaps' = <<>>
  /\ cyc0' = [seen |-> seen_offers, file |-> seenFile]
  /\ seenWrites' = 0
  /\ outcome' = "running"
  /\ prevFailed' = FailedSources(fetchLog)
  /\ UNCHANGED <<disk, up, mem, cmds, faults, runs, longHist, lastCmd>>
  /\ UNCHANGED probe

\* The send loop from match n on, entered with the subscribers as they are now:
\* it suspends in the first send_message, or ends when nobody is to be sent to.
EnterSends(nf, n) ==
  IF n > Len(nf) \/ subscribers = <<>>
  THEN /\ pc' = "sleeping"
       /\ ni' = 0
       /\ cj' = 0
       /\ targets' = <<>>
       /\ snaps' = snaps \o [k \in 1..(Len(nf) - n + 1) |-> <<>>]
       /\ outcome' = "done"
  ELSE /\ pc' = "sending"
       /\ ni' = n
       /\ cj' = 1
       /\ targets' = subscribers
       /\ snaps' = Append(snaps, subscribers)
       /\ outcome' = outcome

NewlyOwed(found) == {<<found[k].oid, c>> : k \in 1..Len(found), c \in Range(subscribers)}

\* A fetch returns and another query follows: its offers are filtered and the
\* next fetch is awaited.
FetchNext(resp) ==
  /\ up
  /\ pc = "fetching"
  /\ HasNextQuery(qi, SEARCH_QUERIES)
  /\ LET found == NewFrom(fetch(resp), seen_offers)
     IN  /\ new_found' = new_found \o found
         /\ unsent' = unsent \cup NewlyOwed(found)
  /\ fetchLog' = Append(fetchLog, [src |-> SEARCH_QUERIES[qi], resp |-> resp])
  /\ qi' = qi + 1
  /\ UNCHANGED <<disk, up, mem, pc, ni, cj, targets, budget,
                 tailQueries, attempts, snaps, cyc0, seenWrites, outcome, prevFailed,
                 recordedIn, lossy, lastCmd>>
  /\ UNCHANGED probe

\* The fetch of the last query returns: its offers are filtered, the loop
\* ends, and check_once runs on to its first send_message or to its end.
FetchLast(resp) ==
  /\ up
  /\ pc = "fetching"
  /\ ~HasNextQuery(qi, SEARCH_QUERIES)
  /\ fetchLog' = Append(fetchLog, [src |-> SEARCH_QUERIES[qi], resp |-> resp])
  /\ tailQueries' = SEARCH_QUERIES
  /\ qi' = 0
  /\ LET found == NewFrom(fetch(resp), seen_offers)
         nf == new_found \o found
     IN  /\ new_found' = nf
         /\ unsent' = unsent \cup NewlyOwed(found)
         /\ IF MustPersist(nf)
            THEN \E w \in Writes :
                   /\ seen_offers' = MarkSeen(seen_offers, nf)
                   /\ seenFile' = save_json(seenFile, seen_offers', w)
                   /\ seenWrites' = seenWrites + 1
                   /\ faults' = faults + Fault(w)
                   /\ lossy' = (lossy \/ w # "ok")
                   /\ IF w = "ok"
                      THEN /\ recordedIn' =
                                [o \in OIds |->
                                   IF recordedIn[o] = 0 /\ InSeq(o, seenFile'.data)
                                   THEN cycleNo ELSE recordedIn[o]]
                           /\ EnterSends(nf, 1)
                      ELSE \* save_json raised: polling_loop logs it and sleeps
                           /\ recordedIn' = recordedIn
                           /\ pc' = "sleeping"
                           /\ outcome' = "save_raised"
                           /\ UNCHANGED <<ni, cj, targets, snaps>>
            ELSE /\ EnterSends(nf, 1)
                 /\ UNCHANGED <<seen_offers, seenFile, seenWrites, faults, lossy, recordedIn>>
  /\ UNCHANGED <<subsFile, up, subscribers, SEARCH_QUERIES, cycleNo, cmds, runs,
                 attempts, cyc0, prevFailed, lastCmd>>
  /\ UNCHANGED probe

\* The process is stopped while save_json rewrites the seen file.
CrashInSave(resp) ==
  /\ up
  /\ pc = "fetching"
  /\ ~HasNextQuery(qi, SEARCH_QUERIES)
  /\ cmds + faults < MaxEvents
  /\ MustPersist(new_found \o NewFrom(fetch(resp), seen_offers))
  /\ seenFile' = CorruptFile
  /\ lossy' = TRUE
  /\ faults' = faults + 1
  /\ ProcessGone
  /\ UNCHANGED <<subsFile, cycleNo, cmds, runs, recordedIn, unsent>>
  /\ UNCHANGED probe

\* A send_message returns or raises; the loop goes on to the next subscriber,
\* the next match, or the end of check_once.
SendReturn(ok) ==
  /\ up
  /\ pc = "sending"
  /\ attempts' = Append(attempts, [n |-> ni, oid |-> new_found[ni].oid,
                                   chat |-> targets[cj], ok |-> ok])
  /\ unsent' = unsent \ {<<new_found[ni].oid, targets[cj]>>}
  /\ IF SendRaises(ok)
     THEN /\ pc' = "sleeping"
          /\ outcome' = "send_raised"
          /\ UNCHANGED <<ni, cj, targets, snaps>>
     ELSE IF cj < Len(targets)
     THEN /\ cj' = cj + 1
          /\ UNCHANGED <<pc, ni, targets, snaps, outcome>>
     ELSE EnterSends(new_found, ni + 1)
  /\ UNCHANGED <<disk, up, mem, qi, new_found, budget, fetchLog, tailQueries,
                 cyc0, seenWrites, prevFailed, recordedIn, lossy, lastCmd>>
  /\ UNCHANGED probe

\* ----------------------------------------------------------------- commands
\* (mutant) /start without the membership test.
StartListAlways(chat, subs) == Append(subs, chat)

\* The subscriber list after /start from chat.
StartList(chat, subs) == IF ~InSeq(chat, subs) THEN Append(subs, chat) ELSE subs

\* The subscriber list after /stop from chat.
StopList(chat, subs) == IF InSeq(chat, subs) THEN RemoveFirst(chat, subs) ELSE subs

cmd_start(chat) ==
  /\ up
  /\ cmds + faults < MaxEvents
  /\ cmds' = cmds + 1
  /\ subscribers' = StartList(chat, subscribers)
  /\ \E w \in (IF subscribers' # subscribers THEN Writes ELSE {"ok"}) :
       /\ subsFile' = IF subscribers' # subscribers
                      THEN save_json(subsFile, subscribers', w) ELSE subsFile
       /\ faults' = faults + Fault(w)
       /\ lastCmd' = [kind |-> "start", chat |-> chat, member |-> InSeq(chat, subscribers)]
  /\ UNCHANGED <<seenFile, up, seen_offers, SEARCH_QUERIES, task, cycleNo, runs,
                 cycleHist, longHist>>
  /\ UNCHANGED probe

cmd_stop(chat) ==
  /\ up
  /\ cmds + faults < MaxEvents
  /\ cmds' = cmds + 1
  /\ subscribers' = StopList(chat, subscribers)
  /\ unsent' = IF subscribers' # subscribers THEN {pr \in unsent : pr[2] # chat} ELSE unsent
  /\ \E w \in (IF subscribers' # subscribers THEN Writes ELSE {"ok"}) :
       /\ subsFile' = IF subscribers' # subscribers
                      THEN save_json(subsFile, subscribers', w) ELSE subsFile
       /\ faults' = faults + Fault(w)
       /\ lastCmd' = [kind |-> "stop", chat |-> chat, member |-> InSeq(chat, subscribers)]
  /\ UNCHANGED <<seenFile, up, seen_offers, SEARCH_QUERIES, task, cycleNo, runs,
                 cycleHist, recordedIn, lossy>>
  /\ UNCHANGED probe

cmd_status ==
  /\ up
  /\ cmds + faults < MaxEvents
  /\ cmds' = cmds + 1
  /\ lastCmd' = [kind |-> "status", chat |-> 0, member |-> FALSE]
  /\ UNCHANGED <<disk, up, mem, task, cycleNo, faults, runs, cycleHist, longHist>>
  /\ UNCHANGED probe

\* /addquery with an argument (without one it only replies).
cmd_addquery(args) ==
  /\ up
  /\ cmds + faults < MaxEvents
  /\ Len(SEARCH_QUERIES) < MaxQueries
  /\ cmds' = cmds + 1
  /\ SEARCH_QUERIES' = IF args # "" THEN Append(SEARCH_QUERIES, args) ELSE SEARCH_QUERIES
  /\ lastCmd' = [kind |-> "addquery", chat |-> 0, member |-> FALSE]
  /\ UNCHANGED <<disk, up, seen_offers, subscribers, task, cycleNo, faults, runs,
                 cycleHist, longHist>>
  /\ UNCHANGED probe

Next ==
  \/ Start
  \/ Crash
  \/ WaitUntilReady
  \/ BeginCycle
  \/ \E resp \in Responses : FetchNext(resp)
  \/ \E resp \in Responses : FetchLast(resp)
  \/ \E resp \in Responses : CrashInSave(resp)
  \/ \E ok \in BOOLEAN : SendReturn(ok)
  \/ \E chat \in Chats : cmd_start(chat)
  \/ \E chat \in Chats : cmd_stop(chat)
  \/ cmd_status
  \/ \E args \in QueryArgs \cup {""} : cmd_addquery(args)

Spec == Init /\ [][Next]_vars

\* ------------------------------------------------- the helpers on their own
\* One call of a helper on chosen arguments, from the state before launch.
\* Everything but probe.
progVars == <<seenFile, subsFile, up, seen_offers, subscribers, SEARCH_QUERIES,
              pc, qi, new_found, ni, cj, targets, cycleNo, cmds, faults, runs,
              fetchLog, tailQueries, attempts, snaps, cyc0, seenWrites, outcome,
              recordedIn, lossy, unsent, prevFailed, lastCmd>>

\* The files load_json is called on.
LoadFiles ==
  {AbsentFile, CorruptFile, ArrayFile(<<>>), ArrayFile(<<"o1">>), ArrayFile(<<"o1", "o2">>),
   ObjectFile(<<>>), ObjectFile(<<"o1">>)}

\* The titles and prices matches_price_threshold is called on.
Titles ==
  {"iPhone 11 super", "IPHONE 12 PRO MAX", "iPhone 12 Pro", "Apple iphone 13 pro",
   "iPhone 14 Plus", "iphone 15 pro max 256GB", "iPhone 16", "iphone11", "Samsung S10", ""}
Prices == {None, 0, 350, 351, 400, 401, 700, 750, 1100, 1300, 2900, 2901}

\* load_json(path, []) as the module calls it at lines 124 and 125.
Load(file) ==
  /\ probe.fn = "none"
  /\ probe' = [fn |-> "load_json", file |-> file,
                out |-> load_json(file, <<>>),
                type |-> load_json_type(file),
                appendRaises |-> AppendRaises(load_json_type(file))]
  /\ UNCHANGED progVars

Judge(title, price) ==
  /\ probe.fn = "none"
  /\ probe' = [fn |-> "matches_price_threshold", title |-> title, price |-> price,
                out |-> matches_price_threshold(title, price)]
  /\ UNCHANGED progVars

Normalize(text) ==
  /\ probe.fn = "none"
  /\ probe' = [fn |-> "normalize_price", text |-> text, out |-> normalize_price(text)]
  /\ UNCHANGED progVars

HelperNext ==
  \/ \E file \in LoadFiles : Load(file)
  \/ \E title \in Titles, price \in Prices : Judge(title, price)
  \/ \E text \in PriceTexts : Normalize(text)

HelperSpec == Init /\ [][HelperNext]_vars

\* ------------------------------------------------------------------ claims
CycleOver == up /\ pc = "sleeping" /\ outcome # "none"

FetchPhaseOver == up /\ pc \in {"sending", "sleeping"} /\ outcome # "none"

PersistedSeen == IF seenFile.kind = "array" THEN seenFile.data ELSE <<>>

\* No offer a source returned in this cycle passes the three checks.
NoOfferPasses ==
  \A i \in 1..Len(fetchLog) :
    fetchLog[i].resp.status = 200 =>
      \A k \in 1..Len(fetchLog[i].resp.body) :
        LET off == fetchLog[i].resp.body[k]
        IN  off.id # "" => ~IsNewMatch(off, cyc0.seen)

\* C1: a poll cycle in which no offer passes the three checks leaves the
\* Seen-Set as it was, in memory and on disk, writes no seen file and sends
\* no message.
C1_NoMatchNoEffect ==
  (CycleOver /\ NoOfferPasses) =>
    /\ seen_offers = cyc0.seen
    /\ seenFile = cyc0.file
    /\ seenWrites = 0
    /\ attempts = <<>>

\* C1's case: a cycle ended in which a source returned an offer that was
\* already seen, and there was a subscriber to send to.
C1_Witness ==
  /\ CycleOver
  /\ NoOfferPasses
  /\ subscribers # <<>>
  /\ \E i \in 1..Len(fetchLog) :
       /\ fetchLog[i].resp.status = 200
       /\ \E k \in 1..Len(fetchLog[i].resp.body) :
            InSeq(fetchLog[i].resp.body[k].id, cyc0.seen)

\* C2: in a cycle that reached its send loop, every new match is attempted
\* to every subscriber of the list copied for it, whichever sends failed,
\* and its id is recorded as seen in memory and on disk.
C2_EverySubscriberAttempted ==
  (CycleOver /\ outcome # "save_raised") =>
    /\ Len(snaps) = Len(new_found)
    /\ \A n \in 1..Len(new_found) :
         /\ \A j \in 1..Len(snaps[n]) :
              \E a \in 1..Len(attempts) :
                /\ attempts[a].n = n
                /\ attempts[a].oid = new_found[n].oid
                /\ attempts[a].chat = snaps[n][j]
         /\ InSeq(new_found[n].oid, seen_offers)
         /\ InSeq(new_found[n].oid, PersistedSeen)

\* C2's case: the send to the first of two subscribers failed, the send to
\* the second was made and succeeded.
C2_Witness ==
  /\ CycleOver
  /\ outcome = "done"
  /\ Len(new_found) >= 1
  /\ Len(snaps) >= 1
  /\ Len(snaps[1]) = 2
  /\ Len(attempts) >= 2
  /\ ~attempts[1].ok
  /\ attempts[2].ok
  /\ attempts[2].n = 1

\* C3 (as claimed): every offer id occurs at most once in the Seen-Set, in
\* memory and in the persisted array.
C3_SeenSetHasNoDuplicates == NoDup(seen_offers) /\ NoDup(PersistedSeen)

\* C4: while no write of the seen file has failed, an id that an earlier
\* cycle wrote to the seen file is not among the new matches of a later cycle
\* and is not sent by it, across restarts.
C4_SeenNeverRenotified ==
  ~lossy =>
    /\ \A k \in 1..Len(new_found) : recordedIn[new_found[k].oid] \in {0, cycleNo}
    /\ \A a \in 1..Len(attempts) : recordedIn[attempts[a].oid] = cycleNo

\* C4's case: after a restart a source returned a listing that passes both
\* filters and that a cycle of the earlier run had recorded; nothing was selected.
C4_Witness ==
  /\ ~lossy
  /\ runs = 2
  /\ CycleOver
  /\ new_found = <<>>
  /\ \E i \in 1..Len(fetchLog) :
       /\ fetchLog[i].resp.status = 200
       /\ \E k \in 1..Len(fetchLog[i].resp.body) :
            LET off == fetchLog[i].resp.body[k]
            IN  /\ off.id # ""
                /\ PriceOk[off]
                /\ WordsOk[off]
                /\ recordedIn[off.id] > 0
                /\ recordedIn[off.id] < cycleNo

\* C5: once a send of the cycle has been started, the seen file has been
\* written exactly once in the cycle and holds the id of every new match.
C5_PersistBeforeFirstSend ==
  (up /\ (pc = "sending" \/ attempts # <<>>)) =>
    /\ seenWrites = 1
    /\ seenFile.kind = "array"
    /\ \A k \in 1..Len(new_found) : InSeq(new_found[k].oid, seenFile.data)

\* C5's case: two new matches, the first send of the cycle is in flight.
C5_Witness ==
  /\ up
  /\ pc = "sending"
  /\ attempts = <<>>
  /\ Len(new_found) = 2
  /\ new_found[1].oid # new_found[2].oid

\* C6 (as claimed): when a cycle is over and no write of the seen file has
\* failed, every offer in the persisted Seen-Set has been attempted to every
\* chat that was a subscriber when it was found and has not unsubscribed
\* (no such send is outstanding), also after the process was stopped and
\* launched again.
C6_AtLeastOnce ==
  (CycleOver /\ ~lossy) => \A pair \in unsent : ~InSeq(pair[1], PersistedSeen)

\* C7 (as claimed): while the process runs, the polling task has not ended.
C7_PollingNeverStops == up => pc # "dead"

RECURSIVE ExpectedFound(_, _)
\* What the logged responses contribute: the filtered offers of the fetches
\* that succeeded, nothing for those that failed.
ExpectedFound(log, seen) ==
  IF log = <<>> THEN <<>>
  ELSE LET r == Head(log).resp
           offers == IF r.status = 200 THEN parse_offers_from_html(r.body) ELSE <<>>
       IN  Entries(SelectSeq(offers, LAMBDA off : IsNewMatch(off, seen)))
             \o ExpectedFound(Tail(log), seen)

\* C8: when the fetch phase of a cycle is over, every query of SEARCH_QUERIES
\* was fetched, in order, whatever fetches failed; a failed fetch contributed
\* no offer and the others contributed their filtered offers; and a query
\* whose fetch failed in the previous cycle was fetched again.
C8_FetchFailureIsolated ==
  FetchPhaseOver =>
    /\ Len(fetchLog) = Len(tailQueries)
    /\ \A i \in 1..Len(fetchLog) : fetchLog[i].src = tailQueries[i]
    /\ new_found = ExpectedFound(fetchLog, cyc0.seen)
    /\ prevFailed \subseteq {fetchLog[i].src : i \in 1..Len(fetchLog)}

\* C8's case: the first of two queries failed with a body of its own, as it
\* had in the previous cycle, and the second contributed a new match.
C8_Witness ==
  /\ FetchPhaseOver
  /\ Len(fetchLog) = 2
  /\ fetchLog[1].resp.status = 500
  /\ fetchLog[2].resp.status = 200
  /\ new_found # <<>>
  /\ fetchLog[1].src \in prevFailed

\* C9 (as claimed): in a cycle whose write of the seen file failed, every new
\* match is still sent to the chats that were subscribers when it was found
\* (and have not unsubscribed): none of these sends is outstanding when the
\* cycle is over.
C9_WriteErrorDoesNotStopCycle ==
  (CycleOver /\ outcome = "save_raised") =>
    \A n \in 1..Len(new_found) : \A c \in Chats : <<new_found[n].oid, c>> \notin unsent

\* C10: /start from a subscriber and /stop from a non-subscriber change
\* neither the list nor its file, and no chat id is ever twice in the list
\* or in the file, whatever poll cycles run in between.
C10_SubscribersAddRemove ==
  /\ [](NoDup(subscribers) /\ (subsFile.kind = "array" => NoDup(subsFile.data)))
  /\ [][(cmds' = cmds + 1 /\ lastCmd'.kind = "start" /\ lastCmd'.member)
          => (subscribers' = subscribers /\ subsFile' = subsFile)]_vars
  /\ [][(cmds' = cmds + 1 /\ lastCmd'.kind = "stop" /\ ~lastCmd'.member)
          => (subscribers' = subscribers /\ subsFile' = subsFile)]_vars

\* C10's case: a chat that is a subscriber sent /start while a cycle was
\* suspended in a send.
C10_Witness ==
  /\ up
  /\ pc = "sending"
  /\ lastCmd.kind = "start"
  /\ lastCmd.member
  /\ Len(subscribers) = 1

\* C11: a /start or /stop that changed the subscriber list and whose write
\* succeeded leaves the subscribers file holding exactly the list in memory;
\* while the process runs nothing but these commands writes that file; and a
\* launch that comes up holds the list the file held.
C11_SubscribersPersisted ==
  /\ [][(cmds' = cmds + 1 /\ lastCmd'.kind \in {"start", "stop"}
           /\ subscribers' # subscribers /\ faults' = faults)
          => subsFile' = ArrayFile(subscribers')]_vars
  /\ [][(up /\ up' /\ subsFile' # subsFile)
          => (cmds' = cmds + 1 /\ lastCmd'.kind \in {"start", "stop"})]_vars
  /\ [][(~up /\ up' /\ subsFile.kind = "array") => subscribers' = subsFile.data]_vars

\* C11's case: a second chat subscribed while a cycle was suspended in a
\* send, and the file holds both chats.
C11_Witness ==
  /\ up
  /\ pc = "sending"
  /\ lastCmd.kind = "start"
  /\ ~lastCmd.member
  /\ Len(subscribers) = 2
  /\ subsFile = ArrayFile(subscribers)

\* C12 (as claimed): every new match of one cycle is sent to the same list of
\* subscribers, whatever commands are handled while a send is awaited.
C12_OneSubscriberReadPerCycle ==
  (CycleOver /\ outcome = "done") =>
    \A n, m \in 1..Len(snaps) : snaps[n] = snaps[m]

\* C14: within one run no step removes an id from seen_offers: the list
\* after a step begins with the list before it.
C14_SeenSetGrowsOnly ==
  [][(up /\ up') =>
       /\ Len(seen_offers') >= Len(seen_offers)
       /\ SubSeq(seen_offers', 1, Len(seen_offers)) = seen_offers]_vars

\* C14's case: the second cycle of a run added an id to a list that held one,
\* and /status was handled in that run.
C14_Witness ==
  /\ CycleOver
  /\ cycleNo = 2
  /\ cyc0.seen # <<>>
  /\ Len(seen_offers) > Len(cyc0.seen)
  /\ lastCmd.kind = "status"

\* C17 (as claimed): in one cycle no offer id is attempted twice to the same
\* chat.
C17_OneDeliveryPerOfferAndSubscriber ==
  CycleOver =>
    \A a, b \in 1..Len(attempts) :
      (attempts[a].oid = attempts[b].oid /\ attempts[a].chat = attempts[b].chat) => a = b

\* The ids of the offers fetched in this cycle that were not seen when it
\* began and pass the price check and the keyword check.
PassingIds ==
  LET fetched == UNION {Range(fetchLog[i].resp.body) :
                          i \in {n \in 1..Len(fetchLog) : fetchLog[n].resp.status = 200}}
  IN  {c.id : c \in {d \in fetched : /\ d.id # ""
                                      /\ ~InSeq(d.id, cyc0.seen)
                                      /\ PriceOk[d]
                                      /\ WordsOk[d]}}

\* C18: when the fetch phase of a cycle is over, seen_offers holds the ids it
\* held when the cycle began and exactly the ids of the fetched offers that
\* were unseen and passed both checks; an offer a check rejected is not
\* among them.
C18_OnlyNewMatchesMarkedSeen ==
  FetchPhaseOver =>
    /\ Range(seen_offers) = Range(cyc0.seen) \cup PassingIds
    /\ Range(Oids(new_found)) = PassingIds

\* C18's case: one source returned a listing above its threshold, which was
\* not marked; a later source returned the same id at a price within it, and
\* the id was marked then.
C18_Witness ==
  /\ FetchPhaseOver
  /\ Len(fetchLog) = 2
  /\ fetchLog[1].resp = [status |-> 200, body |-> <<OfferDear>>]
  /\ fetchLog[2].resp = [status |-> 200, body |-> <<OfferA>>]
  /\ cyc0.seen = <<>>
  /\ seen_offers = <<OfferA.id>>

\* C13 (as claimed): load_json returns a list for every file: the stored
\* array for a file that holds one, the empty list for every other file, and
\* append works on what it returned.
C13_LoadYieldsArray ==
  probe.fn = "load_json" =>
    /\ probe.type = "list"
    /\ ~probe.appendRaises
    /\ probe.out = (IF probe.file.kind = "array" THEN probe.file.data ELSE <<>>)

\* The first entry of the table whose key is in the lower-cased title decides.
FirstKeyDecides(title, price) ==
  \E k \in 1..Len(PRICE_THRESHOLDS) :
    /\ Contains(Lower(title), PRICE_THRESHOLDS[k][1])
    /\ \A m \in 1..(k-1) : ~Contains(Lower(title), PRICE_THRESHOLDS[m][1])
    /\ price <= PRICE_THRESHOLDS[k][2]

\* C15: matches_price_threshold is false for an absent price, and otherwise
\* is price <= threshold of the first table entry whose key is in the
\* lower-cased title, false when there is none.
C15_FirstMatchingKeyDecides ==
  probe.fn = "matches_price_threshold" =>
    probe.out = (probe.price # None /\ FirstKeyDecides(probe.title, probe.price))

\* C15's case: a title that holds three keys is judged by the first of them
\* ("iphone 12", 400) and refused at a price the later two would accept.
C15_Witness ==
  /\ probe.fn = "matches_price_threshold"
  /\ probe.title = "IPHONE 12 PRO MAX"
  /\ probe.price = 700
  /\ ~probe.out

\* Index of the last comma or period of s, 0 when it has none.
LastSeparator(s) ==
  LET seps == {i \in 1..Len(s) : SubSeq(s, i, i) \in {",", "."}}
  IN  IF seps = {} THEN 0 ELSE CHOOSE i \in seps : \A j \in seps : j <= i

\* The whole units of a price text: its digits up to the last comma or
\* period, or all of them when it has neither.
WholeUnits(s) ==
  IF LastSeparator(s) = 0 THEN IntOf(Keep(s, Digits))
  ELSE IntOf(Keep(SubSeq(s, 1, LastSeparator(s) - 1), Digits))

====
